---- MODULE Spec2Model ----
(***************************************************************************)
(* Model of sigma/pipelines/cortexxdr/cortexxdr.py:                        *)
(*   - CortexXDR_pipeline(): the ordered list of processing items applied  *)
(*     to a Sigma rule (specification Spec);                               *)
(*   - ReplaceIntegrityLevelQueryTransformation.apply(): the rewrite of    *)
(*     the rendered query (specification SpecRewrite).                     *)
(* Text (error messages, queries) is a sequence of tokens, each token a    *)
(* string that the regular expressions of the code treat as a unit.        *)
(***************************************************************************)
EXTENDS Integers, Sequences, FiniteSets, TLC

VARIABLES message, orig, rule, status, error,
          input, pc, output_type, query, target_string, replacement_string,
          result, flag

pipelineVars == <<message, orig, rule, status, error>>
rewriteVars == <<input, pc, output_type, query, target_string,
                 replacement_string, result, flag>>
vars == <<message, orig, rule, status, error,
          input, pc, output_type, query, target_string, replacement_string,
          result, flag>>

\* Python's None (an absent category, product, service or state entry).
NoValue == "None"

(***************************************************************************)
(* Generic helpers on sequences.                                           *)
(***************************************************************************)
RECURSIVE Flatten(_)
Flatten(ss) == IF ss = <<>> THEN <<>> ELSE Head(ss) \o Flatten(Tail(ss))

Range(s) == {s[i] : i \in DOMAIN s}

\* sep.join(parts), every part and sep being a token sequence.
RECURSIVE Join(_, _)
Join(sep, parts) ==
    IF parts = <<>> THEN <<>>
    ELSE IF Len(parts) = 1 THEN parts[1]
    ELSE parts[1] \o sep \o Join(sep, Tail(parts))

(***************************************************************************)
(* The mapping tables of CortexXDR_pipeline.                               *)
(***************************************************************************)
\* A field-map entry whose value is a string (rename) or a list (expansion).
MapStr(k, t) == [k |-> k, kind |-> "str", targets |-> <<t>>]
MapList(k, ts) == [k |-> k, kind |-> "list", targets |-> ts]

logsource_category_to_event_type == <<
    [category |-> "process_creation",
     conditions |-> <<[field |-> "event_type", value |-> "ENUM.PROCESS"],
                      [field |-> "event_sub_type", value |-> "ENUM.PROCESS_START"]>>],
    [category |-> "file_change",
     conditions |-> <<[field |-> "event_type", value |-> "ENUM.FILE"]>>],
    [category |-> "file_rename",
     conditions |-> <<[field |-> "event_type", value |-> "ENUM.FILE"]>>],
    [category |-> "file_delete",
     conditions |-> <<[field |-> "event_type", value |-> "ENUM.FILE"]>>],
    [category |-> "file_event",
     conditions |-> <<[field |-> "event_type", value |-> "ENUM.FILE"]>>],
    [category |-> "image_load",
     conditions |-> <<[field |-> "event_type", value |-> "ENUM.LOAD_IMAGE"]>>],
    [category |-> "registry_add",
     conditions |-> <<[field |-> "event_type", value |-> "ENUM.REGISTRY"]>>],
    [category |-> "registry_delete",
     conditions |-> <<[field |-> "event_type", value |-> "ENUM.REGISTRY"]>>],
    [category |-> "registry_event",
     conditions |-> <<[field |-> "event_type", value |-> "ENUM.REGISTRY"]>>],
    [category |-> "registry_set",
     conditions |-> <<[field |-> "event_type", value |-> "ENUM.REGISTRY"]>>],
    [category |-> "network_connection",
     conditions |-> <<[field |-> "event_type", value |-> "ENUM.NETWORK"]>>],
    [category |-> "firewall",
     conditions |-> <<[field |-> "event_type", value |-> "ENUM.NETWORK"]>> ] >>

translation_dict == <<
    [activity_type |-> "process",
     index |-> [name |-> "xdr_process", type |-> "preset"],
     category |-> <<"process_creation">>,
     fields |-> <<
        MapStr("ProcessId", "action_process_os_pid"),
        MapStr("Image", "action_process_image_path"),
        MapStr("Product", "action_process_signature_product"),
        MapStr("Company", "action_process_signature_vendor"),
        MapStr("CommandLine", "action_process_image_command_line"),
        MapStr("CurrentDirectory", "action_process_cwd"),
        MapStr("User", "action_process_username"),
        MapStr("IntegrityLevel", "action_process_integrity_level"),
        MapStr("md5", "action_process_image_md5"),
        MapStr("sha256", "action_process_image_sha256"),
        MapStr("ParentProcessId", "actor_process_os_pid"),
        MapStr("ParentImage", "actor_process_image_path"),
        MapStr("ParentCommandLine", "actor_process_image_command_line")>>],
    [activity_type |-> "file",
     index |-> [name |-> "xdr_file", type |-> "preset"],
     category |-> <<"file_change", "file_rename", "file_delete", "file_event">>,
     fields |-> <<
        MapStr("Image", "actor_process_image_path"),
        MapStr("CommandLine", "actor_process_image_command_line"),
        MapStr("ParentImage", "causality_actor_process_image_path"),
        MapStr("ParentCommandLine", "causality_actor_process_command_line"),
        MapStr("TargetFilename", "action_file_name"),
        MapStr("SourceFilename", "action_file_previous_file_name")>>],
    [activity_type |-> "image_load",
     index |-> [name |-> "xdr_data", type |-> "dataset"],
     category |-> <<"image_load">>,
     fields |-> <<
        MapStr("Image", "actor_process_image_path"),
        MapStr("CommandLine", "actor_process_image_command_line"),
        MapStr("ParentImage", "causality_actor_process_image_path"),
        MapStr("ParentCommandLine", "causality_actor_process_command_line"),
        MapStr("ImageLoaded", "action_module_path"),
        MapStr("md5", "action_module_md5"),
        MapStr("sha256", "action_module_sha256")>>],
    [activity_type |-> "registry",
     index |-> [name |-> "xdr_registry", type |-> "preset"],
     category |-> <<"registry_add", "registry_delete", "registry_event", "registry_set">>,
     fields |-> <<
        MapStr("Image", "actor_process_image_path"),
        MapStr("CommandLine", "actor_process_image_command_line"),
        MapStr("ParentImage", "causality_actor_process_image_path"),
        MapStr("ParentCommandLine", "causality_actor_process_command_line"),
        MapStr("TargetObject", "action_registry_key_name"),
        MapList("Details", <<"action_registry_value_name", "action_registry_data">>)>>],
    [activity_type |-> "network",
     index |-> [name |-> "network_story", type |-> "preset"],
     category |-> <<"network_connection", "firewall">>,
     fields |-> <<
        MapStr("Image", "actor_process_image_path"),
        MapStr("CommandLine", "actor_process_image_command_line"),
        MapStr("ParentImage", "causality_actor_process_image_path"),
        MapStr("ParentCommandLine", "causality_actor_process_command_line"),
        MapList("DestinationPort", <<"action_local_port", "action_remote_port">>),
        MapList("DestinationIp", <<"action_local_ip", "action_remote_ip">>),
        MapStr("User", "action_username"),
        MapList("SourcePort", <<"action_local_port", "action_remote_port">>),
        MapList("SourceIp", <<"action_local_ip", "action_remote_ip">>),
        MapStr("Protocol", "action_network_protocol"),
        MapList("dst_ip", <<"action_local_ip", "action_remote_ip">>),
        MapList("dst_port", <<"action_local_port", "action_remote_port">>),
        MapList("src_ip", <<"action_local_ip", "action_remote_ip">>),
        MapList("src_port", <<"action_local_port", "action_remote_port">>)>>] >>

os_translation_dict == <<
    [product |-> "windows",
     conditions |-> <<[field |-> "agent_os_type", value |-> "ENUM.AGENT_OS_WINDOWS"]>>],
    [product |-> "linux",
     conditions |-> <<[field |-> "agent_os_type", value |-> "ENUM.AGENT_OS_LINUX"]>>],
    [product |-> "macos",
     conditions |-> <<[field |-> "agent_os_type", value |-> "ENUM.AGENT_OS_MAC"]>>] >>

\* list(details['fields'].keys()), in the dict's order.
Keys(details) == [i \in DOMAIN details.fields |-> details.fields[i].k]

KnownCategories == {logsource_category_to_event_type[i].category :
                        i \in DOMAIN logsource_category_to_event_type}

(***************************************************************************)
(* The field-validity guard's field set and message (unsupported_field_name)*)
(***************************************************************************)
\* Python's order on the field names (str.__lt__ compares code points, so
\* the capitalised names come before the lower-case ones).
PyStrOrder == <<"Bar", "CommandLine", "Company", "CurrentDirectory",
                "DestinationIp", "DestinationPort", "Details", "Foo", "Image",
                "ImageLoaded", "IntegrityLevel", "ParentCommandLine",
                "ParentImage", "ParentProcessId", "ProcessId", "Product",
                "Protocol", "SourceFilename", "SourceIp", "SourcePort",
                "TargetFilename", "TargetObject", "User", "dst_ip", "dst_port",
                "md5", "sha256", "src_ip", "src_port">>

Rank(f) == CHOOSE i \in DOMAIN PyStrOrder : PyStrOrder[i] = f

\* sorted(S) for a set S of field names.
RECURSIVE Sorted(_)
Sorted(S) ==
    IF S = {} THEN <<>>
    ELSE LET m == CHOOSE x \in S : \A y \in S : Rank(x) <= Rank(y)
         IN <<m>> \o Sorted(S \ {m})

\* sum([list(translation_dict[x]['fields'].keys()) for x in translation_dict.keys()], [])
AllFieldKeys ==
    Flatten([i \in DOMAIN translation_dict |-> Keys(translation_dict[i])])

\* The names listed in the guard's message: sorted(set(sum(...))).
SupportedFieldList == Sorted(Range(AllFieldKeys))

\* The fields of ExcludeFieldCondition: list(set(sum(...))).
FirstTypeFieldsOnly == Range(Keys(translation_dict[1]))
ExcludeFields == Range(AllFieldKeys)

\* "This pipeline only supports the following fields:\n{" + '}, {'.join(...) + '}'
BaseMessage ==
    <<"This pipeline only supports the following fields:\n{">>
    \o Join(<<"}, {">>, [i \in DOMAIN SupportedFieldList |-> <<SupportedFieldList[i]>>])
    \o <<"}">>

InvalidFieldPrefix == "Invalid SigmaDetectionItem field name encountered: "

\* InvalidFieldTransformation.apply_detection_item: the text assigned to
\* self.message, which is also the text of the error raised.
InvalidFieldMessage(field_name, self_message) ==
    <<InvalidFieldPrefix, field_name, ". ">> \o self_message

RuleFailureMessage ==
    <<"Rule type not yet supported by the Cortex XDR Sigma backend">>

(***************************************************************************)
(* The processing items, in the order of ProcessingPipeline(items=[...]).  *)
(***************************************************************************)
CategoryCondition(c) == [type |-> "category", value |-> c]
ProductCondition(p) == [type |-> "product", value |-> p]
AppliedCondition(id) == [type |-> "applied", value |-> id]

unsupported_field_name == <<
    [identifier |-> <<"cortex_fail_field_not_supported">>,
     transformation |-> [type |-> "InvalidField"],
     rule_conditions |-> <<>>, linking |-> "all", negation |-> FALSE] >>

dataset_preset_configuration ==
    [i \in DOMAIN translation_dict |->
        [identifier |-> <<"cortex_dataset_preset_", translation_dict[i].activity_type, "_config">>,
         transformation |-> [type |-> "SetState", key |-> "dataset_preset",
                             val |-> <<translation_dict[i].index.type, "::",
                                       translation_dict[i].index.name>>],
         rule_conditions |-> [j \in DOMAIN translation_dict[i].category |->
                                 CategoryCondition(translation_dict[i].category[j])],
         linking |-> "any", negation |-> FALSE]]

os_filter ==
    [i \in DOMAIN os_translation_dict |->
        [identifier |-> <<"cortexxdr_", os_translation_dict[i].product, "_os">>,
         transformation |-> [type |-> "AddCondition",
                             conditions |-> os_translation_dict[i].conditions],
         rule_conditions |-> <<ProductCondition(os_translation_dict[i].product)>>,
         linking |-> "all", negation |-> FALSE]]

event_type_filters ==
    [i \in DOMAIN logsource_category_to_event_type |->
        [identifier |-> <<"cortex_", logsource_category_to_event_type[i].category, "_eventtype">>,
         transformation |-> [type |-> "AddCondition",
                             conditions |-> logsource_category_to_event_type[i].conditions],
         rule_conditions |-> <<CategoryCondition(logsource_category_to_event_type[i].category)>>,
         linking |-> "all", negation |-> FALSE]]

field_mappings ==
    [i \in DOMAIN translation_dict |->
        [identifier |-> <<"cortex_", translation_dict[i].activity_type, "_fieldmapping">>,
         transformation |-> [type |-> "FieldMapping", fields |-> translation_dict[i].fields],
         rule_conditions |-> [j \in DOMAIN translation_dict[i].category |->
                                 CategoryCondition(translation_dict[i].category[j])],
         linking |-> "any", negation |-> FALSE]]

change_logsource_info == <<
    [identifier |-> <<"cortex_logsource">>,
     transformation |-> [type |-> "ChangeLogsource", service |-> "cortex"],
     rule_conditions |-> [i \in DOMAIN logsource_category_to_event_type |->
                             CategoryCondition(logsource_category_to_event_type[i].category)],
     linking |-> "any", negation |-> FALSE] >>

unsupported_rule_types == <<
    [identifier |-> <<"cortex_fail_rule_not_supported">>,
     transformation |-> [type |-> "RuleFailure", message |-> RuleFailureMessage],
     rule_conditions |-> <<AppliedCondition(<<"cortex_logsource">>)>>,
     linking |-> "any", negation |-> TRUE] >>

GuardBeforeRelabelItems ==
    unsupported_field_name \o dataset_preset_configuration \o os_filter
    \o event_type_filters \o field_mappings \o unsupported_rule_types
    \o change_logsource_info

items ==
    unsupported_field_name \o dataset_preset_configuration \o os_filter
    \o event_type_filters \o field_mappings \o change_logsource_info
    \o unsupported_rule_types

(***************************************************************************)
(* Applying the processing items to a rule.  A rule is                     *)
(*   [category, product, service, detections, state, applied]              *)
(* where detections is the conjunction of the rule's detection nodes: a    *)
(* leaf [type |-> "item", field, value] or a disjunction                  *)
(* [type |-> "or", args] of leaves; state is the value stored under        *)
(* 'dataset_preset'; applied is the set of identifiers of the items that   *)
(* were applied to the rule.                                               *)
(***************************************************************************)
Leaf(f, v) == [type |-> "item", field |-> f, value |-> v]

\* LogsourceCondition / RuleProcessingItemAppliedCondition on a rule.
ConditionHolds(c, r) ==
    CASE c.type = "category" -> r.category = c.value
      [] c.type = "product" -> r.product = c.value
      [] c.type = "applied" -> c.value \in r.applied

\* The rule conditions of a processing item, linked by any/all, negated on
\* request; an item without rule conditions applies to every rule.
MatchesRule(item, r) ==
    LET conds == item.rule_conditions
        linked == IF item.linking = "any"
                  THEN \E i \in DOMAIN conds : ConditionHolds(conds[i], r)
                  ELSE \A i \in DOMAIN conds : ConditionHolds(conds[i], r)
    IN \/ conds = <<>>
       \/ (IF item.negation THEN ~linked ELSE linked)

\* field_name_conditions=[ExcludeFieldCondition(fields=...)]: the detection
\* items the field-validity guard is applied to, in the rule's order.
OffendingItems(r) ==
    SelectSeq(r.detections,
              LAMBDA d : d.type = "item" /\ d.field \notin ExcludeFields)

\* FieldMappingTransformation(details['fields']) on one detection node.
FirstTargetOnly(fields, d) ==
    IF d.type = "item" /\ \E i \in DOMAIN fields : fields[i].k = d.field
    THEN LET m == fields[CHOOSE i \in DOMAIN fields : fields[i].k = d.field]
         IN Leaf(m.targets[1], d.value)
    ELSE d

MapDetection(fields, d) ==
    IF d.type = "item" /\ \E i \in DOMAIN fields : fields[i].k = d.field
    THEN LET m == fields[CHOOSE i \in DOMAIN fields : fields[i].k = d.field]
         IN IF m.kind = "str"
            THEN Leaf(m.targets[1], d.value)
            ELSE [type |-> "or",
                  args |-> [j \in DOMAIN m.targets |-> Leaf(m.targets[j], d.value)]]
    ELSE d

\* The transformation of a processing item on the run state
\* s = [rule, failed, error, message]; message is the field-validity
\* guard's self.message.
Transform(item, s) ==
    LET t == item.transformation
        r == s.rule
        done == [r EXCEPT !.applied = @ \cup {item.identifier}]
    IN CASE t.type = "InvalidField" ->
              IF OffendingItems(r) = <<>> THEN [s EXCEPT !.rule = done]
              ELSE LET m == InvalidFieldMessage(OffendingItems(r)[1].field, s.message)
                   IN [s EXCEPT !.failed = TRUE, !.error = m, !.message = m]
         [] t.type = "SetState" ->
              [s EXCEPT !.rule = [done EXCEPT !.state = t.val]]
         [] t.type = "AddCondition" ->
              [s EXCEPT !.rule = [done EXCEPT !.detections =
                  [i \in DOMAIN t.conditions |->
                      Leaf(t.conditions[i].field, t.conditions[i].value)] \o @]]
         [] t.type = "FieldMapping" ->
              [s EXCEPT !.rule = [done EXCEPT !.detections =
                  [i \in DOMAIN r.detections |-> MapDetection(t.fields, r.detections[i])]]]
         [] t.type = "ChangeLogsource" ->
              [s EXCEPT !.rule = [done EXCEPT !.category = NoValue,
                                              !.product = NoValue,
                                              !.service = t.service]]
         [] t.type = "RuleFailure" ->
              [s EXCEPT !.failed = TRUE, !.error = t.message]

\* ProcessingPipeline.apply: the items in order; the first failure ends it.
RECURSIVE ApplyItems(_, _)
ApplyItems(its, s) ==
    IF its = <<>> \/ s.failed THEN s
    ELSE ApplyItems(Tail(its),
                    IF MatchesRule(Head(its), s.rule)
                    THEN Transform(Head(its), s) ELSE s)

RunPipeline(r, self_message) ==
    ApplyItems(items, [rule |-> r, failed |-> FALSE, error |-> <<>>,
                       message |-> self_message])

(***************************************************************************)
(* Specification Spec: one pipeline object converting rule after rule.     *)
(***************************************************************************)
\* Bounds of the rules submitted.
MaxItems == 2
MaxRejections == 2

SampleCategories == KnownCategories \cup {"dns_query", NoValue}
SampleProducts == {NoValue, "windows", "linux", "macos"}
\* One field of every kind: mapped by all activity types, by one only, by
\* two, to a list of targets, and by none.
SampleFields == {"Image", "IntegrityLevel", "TargetFilename", "Details",
                 "DestinationPort", "md5", "Foo", "Bar"}
\* The value of the i-th detection item of a rule.
SampleValues == <<"valueA", "valueB", "valueC", "valueD">>

NoRule == [category |-> NoValue, product |-> NoValue, service |-> NoValue,
           detections |-> <<>>, state |-> <<>>, applied |-> {}]

\* Rejections so far by the field-validity guard of this pipeline object
\* (each one prepends three tokens to self.message).
Rejections == (Len(message) - Len(BaseMessage)) \div 3

PipelineInit ==
    /\ message = BaseMessage
    /\ orig = NoRule
    /\ rule = NoRule
    /\ status = "idle"
    /\ error = <<>>

\* SigmaRule: a rule with its logsource arrives.
NewRule(category, product) ==
    /\ status \in {"idle", "accepted", "rejected"}
    /\ Rejections < MaxRejections
    /\ rule' = [NoRule EXCEPT !.category = category, !.product = product]
    /\ orig' = rule'
    /\ status' = "parsed"
    /\ error' = <<>>
    /\ UNCHANGED message

\* SigmaDetectionItem: one more detection item of the rule.
AddDetectionItem(field) ==
    /\ status = "parsed"
    /\ Len(rule.detections) < MaxItems
    /\ rule' = [rule EXCEPT !.detections =
                   Append(@, Leaf(field, SampleValues[Len(@) + 1]))]
    /\ orig' = rule'
    /\ UNCHANGED <<message, status, error>>

\* ProcessingPipeline.apply(rule) with the items of CortexXDR_pipeline.
ApplyPipeline ==
    /\ status = "parsed"
    /\ rule.detections # <<>>
    /\ LET s == RunPipeline(rule, message)
       IN /\ rule' = s.rule
          /\ status' = IF s.failed THEN "rejected" ELSE "accepted"
          /\ error' = s.error
          /\ message' = s.message
    /\ UNCHANGED orig

RewriteIdle ==
    /\ input = <<>>
    /\ pc = "idle"
    /\ query = <<>>
    /\ target_string = <<>>
    /\ replacement_string = <<>>
    /\ output_type = "default"
    /\ result = <<>>
    /\ flag = FALSE

Init == PipelineInit /\ RewriteIdle

Next ==
    \/ \E c \in SampleCategories, p \in SampleProducts :
          NewRule(c, p) /\ UNCHANGED rewriteVars
    \/ \E f \in SampleFields : AddDetectionItem(f) /\ UNCHANGED rewriteVars
    \/ ApplyPipeline /\ UNCHANGED rewriteVars

Spec == Init /\ [][Next]_vars

(***************************************************************************)
(* Properties of the pipeline (checked under Spec).                        *)
(***************************************************************************)
Converted == status \in {"accepted", "rejected"}
RejectedByFieldGuard ==
    status = "rejected" /\ error # <<>> /\ error[1] = InvalidFieldPrefix
RejectedByTypeGuard == status = "rejected" /\ error = RuleFailureMessage

\* The union of the field-map keys of the five activity types.
UnionOfFieldMapKeys ==
    UNION {{translation_dict[i].fields[j].k : j \in DOMAIN translation_dict[i].fields} :
              i \in DOMAIN translation_dict}

OrigFields == {orig.detections[i].field : i \in DOMAIN orig.detections}

\* error holds, from position k on, the intro, then the names of S sorted
\* and without repetition, separated by "}, {" and closed by "}".
HoldsSortedListAt(k, S) ==
    LET n == Cardinality(S)
        name(j) == error[k + 2 * j - 1]
    IN /\ k + 2 * n <= Len(error)
       /\ error[k] = "This pipeline only supports the following fields:\n{"
       /\ {name(j) : j \in 1..n} = S
       /\ \A j \in 1..(n - 1) : Rank(name(j)) < Rank(name(j + 1))
       /\ \A j \in 1..(n - 1) : error[k + 2 * j] = "}, {"
       /\ error[k + 2 * n] = "}"

\* C1: the field-validity guard is the first item; it rejects a converted
\* rule exactly when one of the rule's detection fields is outside the union
\* of the five field maps' keys, whatever the category and product, and its
\* message names an offending field of the rule and lists all supported
\* field names sorted and without repetition.
C1_FieldGuardRejectsExactlyUnknownFields ==
    /\ Head(items).identifier = <<"cortex_fail_field_not_supported">>
    /\ Converted =>
          /\ RejectedByFieldGuard <=> (OrigFields \ UnionOfFieldMapKeys # {})
          /\ RejectedByFieldGuard =>
                /\ error[2] \in OrigFields \ UnionOfFieldMapKeys
                /\ \E k \in DOMAIN error : HoldsSortedListAt(k, UnionOfFieldMapKeys)

C1_Witness ==
    /\ RejectedByFieldGuard
    /\ orig.category = "process_creation"
    /\ orig.product = "windows"
    /\ error[2] = "Foo"
    /\ Len(orig.detections) = 2

\* C2 as stated: every converted rule whose category is none of the twelve
\* known ones is rejected with the unsupported-type message, and that guard
\* fires exactly for the rules the relabeling pass was not applied to.
C2_UnknownCategoryAlwaysTypeMessage ==
    Converted =>
        /\ orig.category \notin KnownCategories => RejectedByTypeGuard
        /\ ~RejectedByFieldGuard =>
              (RejectedByTypeGuard <=> <<"cortex_logsource">> \notin rule.applied)
        /\ RejectedByTypeGuard => orig.category \notin KnownCategories

\* C2 amended: a converted rule of unknown category is always rejected, with
\* the unsupported-type message when all its fields pass the field-validity
\* guard and with that guard's message otherwise; among the rules that reach
\* it, the unsupported-type guard fires exactly for those the relabeling
\* pass was not applied to, and it rejects no rule of a known category.
C2_UnknownCategoryRejected ==
    Converted =>
        /\ orig.category \notin KnownCategories =>
              /\ status = "rejected"
              /\ OrigFields \subseteq UnionOfFieldMapKeys => RejectedByTypeGuard
              /\ OrigFields \ UnionOfFieldMapKeys # {} => RejectedByFieldGuard
        /\ ~RejectedByFieldGuard =>
              (RejectedByTypeGuard <=> <<"cortex_logsource">> \notin rule.applied)
        /\ RejectedByTypeGuard => orig.category \notin KnownCategories
        /\ status = "accepted" => rule.service = "cortex"

C2_Witness ==
    /\ RejectedByTypeGuard
    /\ orig.category = NoValue
    /\ OrigFields = {"Image", "md5"}

\* The activity type a known category belongs to, and its field map.
TypeOf(category) ==
    CHOOSE i \in DOMAIN translation_dict :
        \E j \in DOMAIN translation_dict[i].category :
            translation_dict[i].category[j] = category

TypeFieldKeys(i) ==
    {translation_dict[i].fields[j].k : j \in DOMAIN translation_dict[i].fields}

TargetsOf(i, f) ==
    translation_dict[i].fields[
        CHOOSE j \in DOMAIN translation_dict[i].fields :
            translation_dict[i].fields[j].k = f].targets

TypeTargetNames(i) ==
    UNION {Range(translation_dict[i].fields[j].targets) :
              j \in DOMAIN translation_dict[i].fields}

\* The field names of a detection node, and of the whole condition tree.
NodeFields(d) ==
    IF d.type = "item" THEN {d.field} ELSE {d.args[j].field : j \in DOMAIN d.args}
TreeFields == UNION {NodeFields(rule.detections[i]) : i \in DOMAIN rule.detections}

InjectedFields == {"event_type", "event_sub_type", "agent_os_type"}

\* The rule has a known category and only fields of that category's map.
InOwnFieldMap ==
    /\ orig.category \in KnownCategories
    /\ OrigFields \subseteq TypeFieldKeys(TypeOf(orig.category))

\* The node that the i-th detection item of the rule became: the injected
\* conditions are put in front of the rule's own.
Injected == Len(rule.detections) - Len(orig.detections)
MappedNode(i) == rule.detections[Injected + i]

\* Every detection item was replaced by its targets with its value kept: a
\* single target renames the item, N targets make an N-way disjunction.
ItemsMappedToTargets ==
    /\ Injected >= 0
    /\ \A i \in DOMAIN orig.detections :
          LET ts == TargetsOf(TypeOf(orig.category), orig.detections[i].field)
              d == MappedNode(i)
          IN IF d.type = "item"
             THEN ts = <<d.field>> /\ d.value = orig.detections[i].value
             ELSE /\ Len(ts) > 1
                  /\ Len(d.args) = Len(ts)
                  /\ \A j \in DOMAIN ts :
                        /\ d.args[j].field = ts[j]
                        /\ d.args[j].value = orig.detections[i].value

\* C3 as stated: after the pipeline the condition tree of such a rule holds
\* mapped (target) field names only.
C3_OnlyTargetFieldNames ==
    (Converted /\ InOwnFieldMap) =>
        /\ status = "accepted"
        /\ TreeFields \subseteq TypeTargetNames(TypeOf(orig.category))
        /\ ItemsMappedToTargets

\* C3 amended: such a rule is accepted, each of its detection items is
\* replaced by its target names (N targets: an N-way disjunction with the
\* value kept), and the only other field names of the condition tree are
\* those of the injected event-type and OS conditions.
C3_MappedPlusInjected ==
    (Converted /\ InOwnFieldMap) =>
        /\ status = "accepted"
        /\ ItemsMappedToTargets
        /\ \A i \in 1..Injected :
              /\ rule.detections[i].type = "item"
              /\ rule.detections[i].field \in InjectedFields
        /\ TreeFields \subseteq
              TypeTargetNames(TypeOf(orig.category)) \cup InjectedFields
        /\ TreeFields \cap UnionOfFieldMapKeys = {}

C3_Witness ==
    /\ status = "accepted"
    /\ orig.category = "registry_set"
    /\ Len(orig.detections) = 2
    /\ orig.detections[1].field = "Details"
    /\ orig.detections[2].field = "Image"
    /\ MappedNode(1).type = "or"
    /\ MappedNode(2) = Leaf("actor_process_image_path", "valueB")

\* C4: the outcome of a rule (accepted or rejected, the rule as rewritten,
\* the exact text of the rejection message) is the one a pipeline object
\* that converted no rule before gives.
C4_OutcomeIndependentOfEarlierRules ==
    Converted =>
        LET fresh == RunPipeline(orig, BaseMessage)
        IN /\ (status = "rejected") = fresh.failed
           /\ error = fresh.error
           /\ rule = fresh.rule

\* C10: a converted rule of a known category that uses a field outside its
\* own activity type's field map is rejected, so an accepted rule keeps no
\* source field name.
C10_ForeignFieldRejected ==
    (Converted /\ orig.category \in KnownCategories) =>
        /\ ~(OrigFields \subseteq TypeFieldKeys(TypeOf(orig.category))) =>
              status = "rejected"
        /\ status = "accepted" => TreeFields \cap UnionOfFieldMapKeys = {}

(***************************************************************************)
(* ReplaceIntegrityLevelQueryTransformation.apply.  A string is a sequence *)
(* of tokens: a word, a number, or one character of punctuation (a space,  *)
(* a quote, a comma, a parenthesis, a backslash ...).                      *)
(***************************************************************************)
field_name == "action_process_integrity_level"
FIELD_NAME == "ACTION_PROCESS_INTEGRITY_LEVEL"

\* str.upper() on a token; (?i) compares tokens through it.
Upper(t) ==
    CASE t = field_name -> FIELD_NAME
      [] t = "in" -> "IN"
      [] t = "untrusted" -> "UNTRUSTED"
      [] t = "low" -> "LOW"
      [] t = "medium" -> "MEDIUM"
      [] t = "high" -> "HIGH"
      [] t = "system" -> "SYSTEM"
      [] t = "System" -> "SYSTEM"
      [] t = "foo" -> "FOO"
      [] t = "x" -> "X"
      [] t = "query" -> "QUERY"
      [] t = "and" -> "AND"
      [] t = "or" -> "OR"
      [] t = "lt" -> "LT"
      [] t = "gte" -> "GTE"
      [] OTHER -> t

\* The keys of integrity_level_ranges, in the dict's order.
LevelOrder == <<"UNTRUSTED", "LOW", "MEDIUM", "HIGH", "SYSTEM">>
LevelNames == Range(LevelOrder)

integrity_level_ranges(level) ==
    CASE level = "UNTRUSTED" -> <<field_name, " ", "lt", " ", "4096">>
      [] level = "LOW" ->
            <<"(", field_name, " ", "gte", " ", "4096", " ", "and", " ",
              field_name, " ", "lt", " ", "8192", ")">>
      [] level = "MEDIUM" ->
            <<"(", field_name, " ", "gte", " ", "8192", " ", "and", " ",
              field_name, " ", "lt", " ", "12288", ")">>
      [] level = "HIGH" ->
            <<"(", field_name, " ", "gte", " ", "12288", " ", "and", " ",
              field_name, " ", "lt", " ", "16384", ")">>
      [] level = "SYSTEM" -> <<field_name, " ", "gte", " ", "16384">>

\* The text pat matches q at position i, ignoring case ((?i)).
MatchesAt(pat, q, i) ==
    /\ i + Len(pat) - 1 <= Len(q)
    /\ \A k \in DOMAIN pat : Upper(q[i + k - 1]) = Upper(pat[k])

\* The text pat occurs in q at position i exactly (str.replace, str.find).
OccursAt(pat, q, i) ==
    /\ i + Len(pat) - 1 <= Len(q)
    /\ \A k \in DOMAIN pat : q[i + k - 1] = pat[k]

\* (?i){field_name} = "{level}"
SinglePatternOf(level) == <<field_name, " ", "=", " ", "\"", level, "\"">>

\* re.search(single_pattern, query): the alternation of the five levels.
SearchSingle(q) ==
    \E i \in DOMAIN q : \E l \in LevelNames : MatchesAt(SinglePatternOf(l), q, i)

\* re.sub('(?i)' + pat, repl, q): every match, from the left, not overlapping.
RECURSIVE ReSub(_, _, _)
ReSub(pat, repl, q) ==
    IF q = <<>> THEN <<>>
    ELSE IF MatchesAt(pat, q, 1)
         THEN repl \o ReSub(pat, repl, SubSeq(q, Len(pat) + 1, Len(q)))
         ELSE <<Head(q)>> \o ReSub(pat, repl, Tail(q))

\* for level in integrity_level_ranges.items(): query = re.sub(...)
RECURSIVE SubLevels(_, _)
SubLevels(levels, q) ==
    IF levels = <<>> THEN q
    ELSE SubLevels(Tail(levels),
                   ReSub(SinglePatternOf(Head(levels)),
                         integrity_level_ranges(Head(levels)), q))

\* q.replace(old, new): every exact occurrence, from the left, not
\* overlapping.
RECURSIVE StrReplace(_, _, _)
StrReplace(old, new, q) ==
    IF q = <<>> THEN <<>>
    ELSE IF old # <<>> /\ OccursAt(old, q, 1)
         THEN new \o StrReplace(old, new, SubSeq(q, Len(old) + 1, Len(q)))
         ELSE <<Head(q)>> \o StrReplace(old, new, Tail(q))

RECURSIVE ExactSubLevels(_, _)
ExactSubLevels(levels, q) ==
    IF levels = <<>> THEN q
    ELSE ExactSubLevels(Tail(levels),
                        StrReplace(SinglePatternOf(Head(levels)),
                                   integrity_level_ranges(Head(levels)), q))

CaseSensitiveSingleValuePass(q) ==
    IF SearchSingle(q) THEN ExactSubLevels(LevelOrder, q) ELSE q

\* if re.search(single_pattern, query): ... (the single-value pass)
SingleValuePass(q) ==
    IF SearchSingle(q) THEN SubLevels(LevelOrder, q) ELSE q

\* (?i){field_name} in \(
MultiPrefix == <<field_name, " ", "in", " ", "(">>

\* ((, )*): the position after the separators that start at k.
RECURSIVE SkipSeparators(_, _)
SkipSeparators(q, k) ==
    IF k + 1 <= Len(q) /\ q[k] = "," /\ q[k + 1] = " "
    THEN SkipSeparators(q, k + 2) ELSE k

\* (("(UNTRUSTED|LOW|MEDIUM|HIGH|SYSTEM)")((, )*)){1,}\) from position j:
\* the position of the closing parenthesis, 0 when there is no match.  The
\* value of each group may also be any word here.
RECURSIVE AnyValueGroupsEnd(_, _)
AnyValueGroupsEnd(q, j) ==
    IF j + 2 <= Len(q) /\ q[j] = "\"" /\ q[j + 1] \notin {"\"", ",", " ", ")", "("}
       /\ q[j + 2] = "\""
    THEN LET k == SkipSeparators(q, j + 3)
         IN IF k <= Len(q) /\ q[k] = ")" THEN k ELSE AnyValueGroupsEnd(q, k)
    ELSE 0

RECURSIVE GroupsEnd(_, _)
GroupsEnd(q, j) ==
    IF j + 2 <= Len(q) /\ q[j] = "\"" /\ Upper(q[j + 1]) \in LevelNames
       /\ q[j + 2] = "\""
    THEN LET k == SkipSeparators(q, j + 3)
         IN IF k <= Len(q) /\ q[k] = ")" THEN k ELSE GroupsEnd(q, k)
    ELSE 0

\* multi_pattern at position i: the position where the match ends, else 0.
MultiMatchEnd(q, i) ==
    IF MatchesAt(MultiPrefix, q, i) THEN GroupsEnd(q, i + Len(MultiPrefix)) ELSE 0

\* re.search(multi_pattern, query) finds a match.
HasMulti(q) == \E i \in DOMAIN q : MultiMatchEnd(q, i) > 0

\* matches.group(0) of re.search(multi_pattern, query): the leftmost match.
TargetString(q) ==
    LET i == CHOOSE i \in DOMAIN q :
                 /\ MultiMatchEnd(q, i) > 0
                 /\ \A h \in 1..(i - 1) : MultiMatchEnd(q, h) = 0
    IN SubSeq(q, i, MultiMatchEnd(q, i))

\* str.split(','): the pieces between the commas.
RECURSIVE Split(_)
Split(q) ==
    IF \A i \in DOMAIN q : q[i] # "," THEN <<q>>
    ELSE LET c == CHOOSE i \in DOMAIN q :
                      q[i] = "," /\ \A h \in 1..(i - 1) : q[h] # ","
         IN <<SubSeq(q, 1, c - 1)>> \o Split(SubSeq(q, c + 1, Len(q)))

\* str.strip(): without the spaces at both ends.
RECURSIVE Strip(_)
Strip(v) ==
    IF v # <<>> /\ Head(v) = " " THEN Strip(Tail(v))
    ELSE IF v # <<>> /\ v[Len(v)] = " " THEN Strip(SubSeq(v, 1, Len(v) - 1))
    ELSE v

\* value.strip().upper() in integrity_level_ranges.keys(): the words of the
\* model do not concatenate to a key, so only a single token can be one.
IsLevelKey(value) ==
    LET v == Strip(value)
    IN Len(v) = 1 /\ Upper(v[1]) \in LevelNames

\* values = re.sub(...'', target_string).replace(')', '').replace('"', '').split(',')
ValuesOf(target) ==
    Split(StrReplace(<<"\"">>, <<>>,
              StrReplace(<<")">>, <<>>, ReSub(MultiPrefix, <<>>, target))))

\* replacement_values, then '(' + ' or '.join(replacement_values) + ')'
ReplacementValues(target) ==
    LET values == ValuesOf(target)
        kept == SelectSeq(values, IsLevelKey)
    IN [i \in DOMAIN kept |-> integrity_level_ranges(Upper(Strip(kept[i])[1]))]

KeepTargetWhenEmpty(target) ==
    IF ReplacementValues(target) = <<>> THEN target
    ELSE <<"(">> \o Join(<<" ", "or", " ">>, ReplacementValues(target)) \o <<")">>

ReplacementString(target) ==
    <<"(">> \o Join(<<" ", "or", " ">>, ReplacementValues(target)) \o <<")">>


(***************************************************************************)
(* json.dumps / json.loads on a structured query: a dict of strings, as a  *)
(* sequence of [key, value] pairs in insertion order.                      *)
(***************************************************************************)
\* The JSON string literal of a text: quotes and backslashes escaped.
Escape(str) ==
    Flatten([i \in DOMAIN str |->
                IF str[i] = "\"" THEN <<"\\", "\"">>
                ELSE IF str[i] = "\\" THEN <<"\\", "\\">>
                ELSE <<str[i]>>])

DumpsString(str) == <<"\"">> \o Escape(str) \o <<"\"">>

Dumps(pairs) ==
    <<"{">>
    \o Join(<<",", " ">>,
            [i \in DOMAIN pairs |->
                DumpsString(pairs[i].key) \o <<":", " ">> \o DumpsString(pairs[i].value)])
    \o <<"}">>

ParseError == [ok |-> FALSE, str |-> <<>>, next |-> 0]

\* The string literal whose opening quote is before position j.
RECURSIVE ReadString(_, _, _)
ReadString(q, j, acc) ==
    IF j > Len(q) THEN ParseError
    ELSE IF q[j] = "\"" THEN [ok |-> TRUE, str |-> acc, next |-> j + 1]
    ELSE IF q[j] = "\\"
         THEN IF j + 1 <= Len(q) /\ q[j + 1] \in {"\"", "\\"}
              THEN ReadString(q, j + 2, Append(acc, q[j + 1]))
              ELSE ParseError
    ELSE ReadString(q, j + 1, Append(acc, q[j]))

RECURSIVE SkipSpaces(_, _)
SkipSpaces(q, j) ==
    IF j <= Len(q) /\ q[j] = " " THEN SkipSpaces(q, j + 1) ELSE j

ParseString(q, j) ==
    IF j <= Len(q) /\ q[j] = "\"" THEN ReadString(q, j + 1, <<>>) ELSE ParseError

\* The members of the object from position j on; acc holds those read.
RECURSIVE ParseMembers(_, _, _)
ParseMembers(q, j, acc) ==
    LET k == ParseString(q, SkipSpaces(q, j))
        colon == IF k.ok THEN SkipSpaces(q, k.next) ELSE 0
        v == IF k.ok /\ colon <= Len(q) /\ q[colon] = ":"
             THEN ParseString(q, SkipSpaces(q, colon + 1)) ELSE ParseError
        after == IF v.ok THEN SkipSpaces(q, v.next) ELSE 0
        pairs == Append(acc, [key |-> k.str, value |-> v.str])
    IN IF ~v.ok \/ after > Len(q) THEN [ok |-> FALSE, pairs |-> <<>>]
       ELSE IF q[after] = "," THEN ParseMembers(q, after + 1, pairs)
       ELSE IF q[after] = "}" /\ SkipSpaces(q, after + 1) > Len(q)
            THEN [ok |-> TRUE, pairs |-> pairs]
       ELSE [ok |-> FALSE, pairs |-> <<>>]

\* json.loads(query) of an object of strings; not ok: it raises.
Loads(q) ==
    LET j == SkipSpaces(q, 1)
    IN IF j <= Len(q) /\ q[j] = "{"
       THEN IF SkipSpaces(q, j + 1) = Len(q) /\ q[Len(q)] = "}"
            THEN [ok |-> TRUE, pairs |-> <<>>]
            ELSE ParseMembers(q, j + 1, <<>>)
       ELSE [ok |-> FALSE, pairs |-> <<>>]

StringQuery(text) == [type |-> "str", text |-> text]
DictQuery(pairs) == [type |-> "dict", pairs |-> pairs]
Raised == [type |-> "JSONDecodeError"]

(***************************************************************************)
(* Specification SpecRewrite: apply() on one rendered query.               *)
(***************************************************************************)
\* Bound of the value lists of the membership clauses submitted.
MaxValues == 2

CommaSpace == <<",", " ">>
Quoted(v) == <<"\"", v, "\"">>
SingleComparison(fn, v) == <<fn, " ", "=", " ">> \o Quoted(v)
MembershipClause(fn, vals, sep) ==
    <<fn, " ", "in", " ", "(">>
    \o Join(sep, [i \in DOMAIN vals |-> Quoted(vals[i])]) \o <<")">>

SingleFragments ==
    {SingleComparison(fn, v) :
        fn \in {field_name, FIELD_NAME}, v \in LevelNames \cup {"high", "FOO"}}
    \cup {SingleComparison("x", "HIGH")}

ListValues == {"LOW", "HIGH", "system", "FOO"}
\* Between two values: the rendered ", ", nothing, a bare comma, ", " twice.
Separators == {CommaSpace, <<>>, <<",">>, CommaSpace \o CommaSpace}
ValueLists == UNION {[1..n -> ListValues] : n \in 1..MaxValues}

MultiFragments ==
    {MembershipClause(field_name, vl, sep) : vl \in ValueLists, sep \in Separators}
    \cup {MembershipClause(FIELD_NAME, <<v>>, CommaSpace) : v \in ListValues}
    \cup {<<field_name, " ", "in", " ", "(">> \o Quoted("LOW") \o CommaSpace \o <<")">>}

Fragments == SingleFragments \cup MultiFragments

\* What follows the first fragment of a two-fragment query.
TailFragments ==
    {SingleComparison(field_name, "MEDIUM"),
     MembershipClause(field_name, <<"LOW">>, CommaSpace),
     MembershipClause(FIELD_NAME, <<"LOW">>, CommaSpace),
     MembershipClause(field_name, <<"LOW", "HIGH">>, CommaSpace),
     MembershipClause(field_name, <<"LOW", "FOO">>, CommaSpace)}

And == <<" ", "and", " ">>

StringQueries ==
    Fragments
    \cup {f \o And \o g : f \in Fragments, g \in TailFragments}
    \cup {f \o g : f \in {<<field_name, " ", "in", " ", "(">> \o Quoted("LOW")},
                   g \in TailFragments}

DictKeys == {<<"query">>, <<field_name, " ", "=", " ">>}
DictValues ==
    {SingleComparison(field_name, "HIGH"),
     MembershipClause(field_name, <<"LOW", "HIGH">>, CommaSpace),
     <<"HIGH">>, <<"x", "\\", "\"">>, <<"x">>}

DictQueries ==
    {<<[key |-> k, value |-> v]>> : k \in DictKeys, v \in DictValues}
    \cup {d \in {<<[key |-> k1, value |-> v1], [key |-> k2, value |-> v2]>> :
                      k1 \in DictKeys, k2 \in DictKeys,
                      v1 \in DictValues, v2 \in DictValues} :
             d[1].key # d[2].key}

Inputs == {StringQuery(t) : t \in StringQueries}
          \cup {DictQuery(d) : d \in DictQueries}

RewriteInit ==
    /\ input \in Inputs
    /\ pc = "start"
    /\ output_type = "default"
    /\ query = <<>>
    /\ target_string = <<>>
    /\ replacement_string = <<>>
    /\ result = <<>>
    /\ flag = FALSE

\* apply(), up to the while loop: the query as text, the single-value pass.
Serialize ==
    /\ pc = "start"
    /\ output_type' = IF input.type = "dict" THEN "json" ELSE "default"
    /\ query' = SingleValuePass(IF input.type = "dict"
                                THEN Dumps(input.pairs) ELSE input.text)
    /\ pc' = "loop"
    /\ UNCHANGED <<input, target_string, replacement_string, result, flag>>

\* One iteration of `while re.search(multi_pattern, query)`.
LoopIteration ==
    /\ pc = "loop"
    /\ HasMulti(query)
    /\ target_string' = TargetString(query)
    /\ replacement_string' = ReplacementString(TargetString(query))
    /\ query' = StrReplace(target_string', replacement_string', query)
    /\ UNCHANGED <<input, pc, output_type, result, flag>>

\* The loop is left: json.loads for a structured query, return query, True
\* (or the exception of json.loads).
Return ==
    /\ pc = "loop"
    /\ ~HasMulti(query)
    /\ LET loaded == Loads(query)
       IN IF output_type = "json"
          THEN IF loaded.ok
               THEN result' = DictQuery(loaded.pairs) /\ flag' = TRUE
               ELSE result' = Raised /\ flag' = FALSE
          ELSE result' = StringQuery(query) /\ flag' = TRUE
    /\ pc' = "done"
    /\ UNCHANGED <<input, output_type, query, target_string, replacement_string>>

RewriteNext ==
    \/ Serialize /\ UNCHANGED pipelineVars
    \/ LoopIteration /\ UNCHANGED pipelineVars
    \/ Return /\ UNCHANGED pipelineVars

InitRewrite == PipelineInit /\ RewriteInit

SpecRewrite == InitRewrite /\ [][RewriteNext]_vars

(***************************************************************************)
(* Properties of the rewriter (checked under SpecRewrite).                 *)
(***************************************************************************)
IsFieldName(t) == Upper(t) = FIELD_NAME
IsLevel(t) == Upper(t) \in LevelNames

\* The range expression of each level.
Lt(n) == <<field_name, " ", "lt", " ", n>>
Gte(n) == <<field_name, " ", "gte", " ", n>>
Between(lo, hi) == <<"(">> \o Gte(lo) \o <<" ", "and", " ">> \o Lt(hi) \o <<")">>
ExpectedRange(level) ==
    CASE level = "UNTRUSTED" -> Lt("4096")
      [] level = "LOW" -> Between("4096", "8192")
      [] level = "MEDIUM" -> Between("8192", "12288")
      [] level = "HIGH" -> Between("12288", "16384")
      [] level = "SYSTEM" -> Gte("16384")

\* A single-value comparison of the field with one of the five levels, in
\* any letter case, starts at position i of q.
ComparisonAt(q, i) ==
    /\ i + 6 <= Len(q)
    /\ IsFieldName(q[i])
    /\ <<q[i + 1], q[i + 2], q[i + 3], q[i + 4]>> = <<" ", "=", " ", "\"">>
    /\ IsLevel(q[i + 5])
    /\ q[i + 6] = "\""

\* q with every such comparison replaced by the range expression of its
\* level and everything else kept.
RECURSIVE ExpectedSingles(_)
ExpectedSingles(q) ==
    IF q = <<>> THEN <<>>
    ELSE IF ComparisonAt(q, 1)
         THEN ExpectedRange(Upper(q[6])) \o ExpectedSingles(SubSeq(q, 8, Len(q)))
         ELSE <<Head(q)>> \o ExpectedSingles(Tail(q))

\* C5: for a string query, the single-value pass replaces every comparison
\* field = "L" (any letter case) by the range expression of L and keeps the
\* rest of the text; a query without a membership clause is returned so,
\* no such comparison is left in any returned string, and the flag is True.
C5_SingleValueComparisonsRewritten ==
    /\ (input.type = "str" /\ pc = "loop" /\ target_string = <<>>) =>
          query = ExpectedSingles(input.text)
    /\ (input.type = "str" /\ pc = "done") =>
          /\ flag = TRUE
          /\ result.type = "str"
          /\ \A i \in DOMAIN result.text : ~ComparisonAt(result.text, i)
          /\ (\A i \in DOMAIN input.text : input.text[i] # "in") =>
                result.text = ExpectedSingles(input.text)

C5_Witness ==
    /\ pc = "done"
    /\ input = StringQuery(SingleComparison(FIELD_NAME, "high") \o And
                           \o SingleComparison(field_name, "MEDIUM"))
    /\ result = StringQuery(Between("12288", "16384") \o And
                            \o Between("8192", "12288"))
    /\ flag = TRUE

\* The values listed in a matched clause, in the listed order.
ListedValues(target) == SelectSeq(target, IsLevel)

\* '(' + the ' or '-disjunction of the range expressions of vals + ')'
ExpectedDisjunction(vals) ==
    <<"(">>
    \o Join(<<" ", "or", " ">>, [i \in DOMAIN vals |-> ExpectedRange(Upper(vals[i]))])
    \o <<")">>

\* C6: every clause the multi-value pattern matched was replaced by the
\* parenthesized ' or '-disjunction of the range expressions of exactly its
\* listed values, in the listed order, and the returned string holds no
\* membership clause over symbolic levels any more.
C6_ClauseReplacedByListedRanges ==
    /\ (input.type = "str" /\ target_string # <<>>) =>
          replacement_string = ExpectedDisjunction(ListedValues(target_string))
    /\ (input.type = "str" /\ pc = "done") => ~HasMulti(result.text)

\* The number of matches of the multi-value pattern in q.
CountMulti(q) == Cardinality({i \in DOMAIN q : MultiMatchEnd(q, i) > 0})

\* C7: every iteration of the multi-value loop strictly decreases the number
\* of matches of the multi-value pattern in the query (so the loop ends
\* after at most that many iterations), and the replacement text holds no
\* match of the pattern.
C7_LoopIterationDecreasesMatches ==
    [][(pc = "loop" /\ pc' = "loop") =>
          /\ CountMulti(query') < CountMulti(query)
          /\ ~HasMulti(replacement_string')]_vars

C7_Witness ==
    /\ pc = "loop"
    /\ target_string # <<>>
    /\ HasMulti(query)
    /\ input.type = "str"

\* The string path of apply() as a function of the text.
RECURSIVE MultiLoop(_)
MultiLoop(q) ==
    IF HasMulti(q)
    THEN MultiLoop(StrReplace(TargetString(q), ReplacementString(TargetString(q)), q))
    ELSE q

RewriteText(q) == MultiLoop(SingleValuePass(q))

\* C8: a structured query comes back with the same keys in the same order,
\* each string rewritten exactly as apply() rewrites it as a string query.
C8_StructuredQueryRewrittenLikeString ==
    (input.type = "dict" /\ pc = "done") =>
        /\ result.type = "dict"
        /\ flag = TRUE
        /\ Len(result.pairs) = Len(input.pairs)
        /\ \A i \in DOMAIN input.pairs :
              /\ result.pairs[i].key = RewriteText(input.pairs[i].key)
              /\ result.pairs[i].value = RewriteText(input.pairs[i].value)

\* The quoted words of q from position k on.
RECURSIVE QuotedFrom(_, _)
QuotedFrom(q, k) ==
    IF k + 2 > Len(q) THEN <<>>
    ELSE IF q[k] = "\"" /\ q[k + 2] = "\""
            /\ q[k + 1] \notin {"\"", ",", " ", "(", ")"}
         THEN <<q[k + 1]>> \o QuotedFrom(q, k + 3)
         ELSE QuotedFrom(q, k + 1)

\* c is a clause  field in ("v1", ..., "vn")  whose list holds recognised
\* levels and at least one other value.
IsMixedClause(c) ==
    LET vals == QuotedFrom(c, 1)
    IN /\ c # <<>>
       /\ IsFieldName(c[1])
       /\ c = MembershipClause(c[1], vals, CommaSpace)
       /\ \E i \in DOMAIN vals : IsLevel(vals[i])
       /\ \E i \in DOMAIN vals : ~IsLevel(vals[i])

MixedClausesOf(q) ==
    {c \in {SubSeq(q, i, j) : i \in DOMAIN q, j \in DOMAIN q} : IsMixedClause(c)}

Contains(q, c) == \E i \in DOMAIN q : OccursAt(c, q, i)

\* C9 as stated: a membership clause mixing recognised levels with another
\* value is replaced by the disjunction of the range expressions of the
\* recognised values, and the clause is gone.
C9_UnrecognisedValuesDropped ==
    (input.type = "str" /\ pc = "done") =>
        \A c \in MixedClausesOf(input.text) :
            /\ ~Contains(result.text, c)
            /\ Contains(result.text,
                        ExpectedDisjunction(SelectSeq(QuotedFrom(c, 1), IsLevel)))

\* C9 amended: the multi-value pattern never matches such a clause, so the
\* clause is still in the returned string with all its values, no value is
\* dropped, and a query that is just such a clause is returned unchanged.
C9_MixedClauseLeftUnchanged ==
    /\ input.type = "str" => ~IsMixedClause(target_string)
    /\ (input.type = "str" /\ pc = "done") =>
          /\ \A c \in MixedClausesOf(input.text) : Contains(result.text, c)
          /\ IsMixedClause(input.text) => result.text = input.text

C9_Witness ==
    /\ pc = "done"
    /\ input = StringQuery(MembershipClause(field_name, <<"LOW", "FOO">>, CommaSpace))
    /\ result = input
    /\ flag = TRUE

====
